---- MODULE Spec2Model ----
(***************************************************************************)
(* State-machine model of cipher::AES_GCM (src/cipher-aes-gcm.cpp).        *)
(*                                                                         *)
(* A session object is a record holding the members of AES_GCM.  Every     *)
(* member function is an operator from a session (and its arguments) to    *)
(* the session afterwards, translated statement by statement; the actions  *)
(* apply these operators to the variable gcm.  Bytes are integers 0..255,  *)
(* strings and blocks are sequences of bytes (1-based here, 0-based in the *)
(* C++ source; pos keeps the 0-based value of the source).                 *)
(*                                                                         *)
(* The block cipher (cipher::AES) and the accumulator (digest::GHASH) are  *)
(* collaborators whose code is not part of the file modelled; they are     *)
(* modelled from their documented interface.                               *)
(***************************************************************************)
EXTENDS Integers, Sequences, FiniteSets, TLC

VARIABLES
    gcm,      \* the AES_GCM object
    op,       \* name of the member function called last
    ret,      \* std::string returned by the last call ("" if none)
    retb,     \* bool returned by the last good()
    threw,    \* the last call threw std::runtime_error
    cmps,     \* per-byte comparison steps made by the last good()
    entry,    \* history: the object right after the last encrypt()/decrypt()
    m_in,     \* history: bytes fed to update since that entry
    m_out,    \* history: bytes returned by update since that entry
    nupd,     \* history: non-empty update calls since that entry
    clean,    \* history: no set_key since that entry
    ncalls,   \* history: member-function calls made on the session so far
    pc,       \* scenario position ("free" under Spec)
    scn       \* scenario inputs and saved results

vars == <<gcm, op, ret, retb, threw, cmps, entry, m_in, m_out, nupd, clean, ncalls, pc, scn>>

-----------------------------------------------------------------------------
(* Bytes and blocks *)

BlockSize == 16

RECURSIVE XorN(_, _, _)
XorN(a, b, n) ==
    IF n = 0 THEN 0
    ELSE ((a + b) % 2) + 2 * XorN(a \div 2, b \div 2, n - 1)

XorTab == [a \in 0..15 |-> [b \in 0..15 |-> XorN(a, b, 4)]]

\* operator ^ on two std::uint8_t
Xor8(a, b) == XorTab[a % 16][b % 16] + 16 * XorTab[a \div 16][b \div 16]

ZeroBlock == [i \in 1..BlockSize |-> 0]

OnesBlock == [i \in 1..BlockSize |-> 255]

XorBlock(x, y) == [i \in 1..BlockSize |-> Xor8(x[i], y[i])]

-----------------------------------------------------------------------------
(* cipher::AES, from its interface: set_encrypt_key(16|24|32 bytes) and a  *)
(* pure, deterministic, invertible 16-byte transform under the installed   *)
(* key schedule.                                                           *)

aes_new == [key |-> <<>>, rk |-> ZeroBlock]

aes_set_encrypt_key(a, key) ==
    [a EXCEPT !.key = key,
              !.rk = [i \in 1..BlockSize |->
                  (key[((5 * i) % Len(key)) + 1] + 31 * i + Len(key)) % 256]]

aes_encrypt(a, b) ==
    [i \in 1..BlockSize |-> Xor8(b[BlockSize + 1 - i], a.rk[i])]

-----------------------------------------------------------------------------
(* digest::GHASH, from its interface: set_key128, set_authdata (reset and  *)
(* seed with the associated data), add (fold bytes), digest (16 bytes).    *)
(* The accumulator keeps what was folded; the digest runs over the padded  *)
(* associated data, the padded data and the length block, each step an     *)
(* invertible XOR-linear map chosen by the hash key, so that two inputs    *)
(* of the same lengths that differ in one block never collide.             *)

ghash_new == [key |-> ZeroBlock, authdata |-> <<>>, data |-> <<>>]

ghash_set_key128(g, k) == [g EXCEPT !.key = k]

ghash_set_authdata(g, a) == [g EXCEPT !.authdata = a, !.data = <<>>]

ghash_add(g, x) == [g EXCEPT !.data = @ \o x]

Pad16(s) == s \o [i \in 1..((BlockSize - (Len(s) % BlockSize)) % BlockSize) |-> 0]

BlocksOf(s) ==
    [j \in 1..(Len(Pad16(s)) \div BlockSize) |->
        SubSeq(Pad16(s), BlockSize * (j - 1) + 1, BlockSize * j)]

LenBlock(a, c) ==
    [i \in 1..BlockSize |->
        CASE i = 7  -> (8 * Len(a)) \div 256
          [] i = 8  -> (8 * Len(a)) % 256
          [] i = 15 -> (8 * Len(c)) \div 256
          [] i = 16 -> (8 * Len(c)) % 256
          [] OTHER  -> 0]

GRot(h) == 1 + ((h[1] + h[BlockSize]) % (BlockSize - 1))

GMul(z, h) == [i \in 1..BlockSize |-> z[((i - 1 + GRot(h)) % BlockSize) + 1]]

RECURSIVE ghash_fold(_, _, _)
ghash_fold(y, blocks, h) ==
    IF blocks = <<>> THEN y
    ELSE ghash_fold(GMul(XorBlock(y, Head(blocks)), h), Tail(blocks), h)

ghash_digest(g) ==
    ghash_fold(ZeroBlock,
               BlocksOf(g.authdata) \o BlocksOf(g.data)
                   \o <<LenBlock(g.authdata, g.data)>>,
               g.key)

-----------------------------------------------------------------------------
(* cipher::AES_GCM *)

\* AES_GCM::set_ghash_key
set_ghash_key(self) ==
    LET hash_key == aes_encrypt(self.aes, ZeroBlock)
    IN  [self EXCEPT !.ghash = ghash_set_key128(@, hash_key)]

\* AES_GCM::set_key128
set_key128(self, key128) ==
    set_ghash_key([self EXCEPT !.aes = aes_set_encrypt_key(@, key128)])

\* AES_GCM::set_key192
set_key192(self, key192) ==
    set_ghash_key([self EXCEPT !.aes = aes_set_encrypt_key(@, key192)])

\* AES_GCM::set_key256
set_key256(self, key256) ==
    set_ghash_key([self EXCEPT !.aes = aes_set_encrypt_key(@, key256)])

\* AES_GCM::clear
clear(self) ==
    [self EXCEPT !.authdata = <<>>, !.nonce = <<>>, !.expected_tag = <<>>,
                 !.state = "INIT", !.pos = 0]

\* AES_GCM::AES_GCM: ghash (), aes (), then clear (); tag is an empty
\* std::string; the three std::array members are not initialised, so they
\* hold whatever the storage held (junk).
AES_GCM(junk) ==
    clear([authdata |-> <<>>, nonce |-> <<>>, expected_tag |-> <<>>,
           state |-> "INIT", pos |-> 0, tag |-> <<>>,
           counter |-> junk, key_stream0 |-> junk, key_stream |-> junk,
           ghash |-> ghash_new, aes |-> aes_new])

\* add_authdata that also seeds the accumulator with the new AAD
add_authdata_reseed(self, a) ==
    [self EXCEPT !.authdata = a,
                 !.ghash = ghash_set_authdata(@, a)]

\* AES_GCM::add_authdata
add_authdata(self, a) == [self EXCEPT !.authdata = a]

\* AES_GCM::set_nonce
set_nonce(self, a) == [self EXCEPT !.nonce = a]

\* AES_GCM::set_authtag
set_authtag(self, a) == [self EXCEPT !.expected_tag = a]

\* increment that adds one to the last byte and drops the carry
RECURSIVE increment_loop_nocarry(_, _, _)
increment_loop_nocarry(counter, i, carry) ==
    IF i < 0 THEN counter
    ELSE LET c == (counter[i + 1] + carry) % 256
         IN  increment_loop_nocarry([counter EXCEPT ![i + 1] = c], i - 1, 0)

\* the loop of AES_GCM::increment_counter, from byte i (0-based) down to 0
RECURSIVE increment_loop(_, _, _)
increment_loop(counter, i, carry) ==
    IF i < 0 THEN counter
    ELSE LET c == (counter[i + 1] + carry) % 256
         IN  increment_loop([counter EXCEPT ![i + 1] = c], i - 1,
                            IF c < carry THEN 1 ELSE 0)

\* AES_GCM::increment_counter
increment_counter(self) ==
    LET counter == increment_loop(self.counter, BlockSize - 1, 1)
    IN  [self EXCEPT !.counter = counter,
                     !.key_stream = aes_encrypt(self.aes, counter)]

\* reset_counter that folds the nonce into the accumulator as it stands
\* (the ghash.set_authdata ("") of the else branch left out)
reset_counter_stale(self) ==
    LET s1 == IF Len(self.nonce) = 12
              THEN [self EXCEPT !.counter = self.nonce \o <<0, 0, 0, 1>>]
              ELSE LET g2 == ghash_add(self.ghash, self.nonce)
                   IN  [self EXCEPT !.ghash = g2,
                                    !.counter = ghash_digest(g2)]
        s2 == [s1 EXCEPT !.key_stream0 = aes_encrypt(s1.aes, s1.counter)]
    IN  increment_counter(s2)

\* reset_counter that generates the first keystream block from J0 itself
\* (aes.encrypt (counter, key_stream) in place of increment_counter ())
reset_counter_noinc(self) ==
    LET s1 == IF Len(self.nonce) = 12
              THEN [self EXCEPT !.counter = self.nonce \o <<0, 0, 0, 1>>]
              ELSE LET g == ghash_set_authdata(self.ghash, <<>>)
                       g2 == ghash_add(g, self.nonce)
                   IN  [self EXCEPT !.ghash = g2,
                                    !.counter = ghash_digest(g2)]
        s2 == [s1 EXCEPT !.key_stream0 = aes_encrypt(s1.aes, s1.counter)]
    IN  [s2 EXCEPT !.key_stream = aes_encrypt(s2.aes, s2.counter)]

\* AES_GCM::reset_counter
reset_counter(self) ==
    LET s1 == IF Len(self.nonce) = 12
              THEN [self EXCEPT !.counter = self.nonce \o <<0, 0, 0, 1>>]
              ELSE LET g == ghash_set_authdata(self.ghash, <<>>)
                       g2 == ghash_add(g, self.nonce)
                   IN  [self EXCEPT !.ghash = g2,
                                    !.counter = ghash_digest(g2)]
        s2 == [s1 EXCEPT !.key_stream0 = aes_encrypt(s1.aes, s1.counter)]
    IN  increment_counter(s2)

\* encrypt that leaves the accumulator as reset_counter left it
\* (ghash.set_authdata (authdata) left out)
encrypt_unseeded(self) ==
    LET s1 == reset_counter(self)
    IN  [s1 EXCEPT !.tag = <<>>,
                   !.state = "ENCRYPT"]

\* AES_GCM::encrypt
encrypt(self) ==
    LET s1 == reset_counter(self)
    IN  [s1 EXCEPT !.tag = <<>>,
                   !.ghash = ghash_set_authdata(@, s1.authdata),
                   !.state = "ENCRYPT"]

\* decrypt that leaves the state encrypt () set
decrypt_as_encrypt(self) == encrypt(self)

\* AES_GCM::decrypt
decrypt(self) == [encrypt(self) EXCEPT !.state = "DECRYPT"]

\* authtag that computes the tag again on every call once a message began
authtag_recompute(self) ==
    IF self.state # "INIT"
    THEN LET d == ghash_digest(self.ghash)
         IN  [self EXCEPT !.tag = [i \in 1..Len(d) |-> Xor8(d[i], self.key_stream0[i])],
                          !.state = "FINAL"]
    ELSE self

\* AES_GCM::authtag; the value returned is the tag member afterwards
authtag(self) ==
    IF self.state = "ENCRYPT" \/ self.state = "DECRYPT"
    THEN LET d == ghash_digest(self.ghash)
         IN  [self EXCEPT !.tag = [i \in 1..Len(d) |-> Xor8(d[i], self.key_stream0[i])],
                          !.state = "FINAL"]
    ELSE self

\* comparison loop that forgets the earlier mismatches
\* (ok = tag[i] == expected_c ? true : not_ok)
RECURSIVE good_loop_last(_, _, _, _, _)
good_loop_last(tag, expected_tag, i, ok, n) ==
    IF ~(i < Len(tag)) THEN [ok |-> ok, n |-> n]
    ELSE LET expected_c == IF i >= Len(expected_tag) THEN 0 ELSE expected_tag[i + 1]
         IN  good_loop_last(tag, expected_tag, i + 1,
                            IF tag[i + 1] = expected_c THEN TRUE ELSE FALSE, n + 1)

\* comparison loop that counts a position beyond the expected tag as a
\* mismatch
RECURSIVE good_loop_strict(_, _, _, _, _)
good_loop_strict(tag, expected_tag, i, ok, n) ==
    IF ~(i < Len(tag)) THEN [ok |-> ok, n |-> n]
    ELSE good_loop_strict(tag, expected_tag, i + 1,
                          IF i < Len(expected_tag) /\ tag[i + 1] = expected_tag[i + 1]
                          THEN ok ELSE FALSE, n + 1)

\* the comparison loop of AES_GCM::good, from byte i (0-based) on;
\* n counts the iterations made
RECURSIVE good_loop(_, _, _, _, _)
good_loop(tag, expected_tag, i, ok, n) ==
    IF ~(i < Len(tag)) THEN [ok |-> ok, n |-> n]
    ELSE LET expected_c == IF i >= Len(expected_tag) THEN 0 ELSE expected_tag[i + 1]
         IN  good_loop(tag, expected_tag, i + 1,
                       IF tag[i + 1] = expected_c THEN ok ELSE FALSE, n + 1)

\* AES_GCM::good
good(self) ==
    LET s1 == authtag(self)
        r == good_loop(s1.tag, s1.expected_tag, 0, TRUE, 0)
    IN  [self |-> s1, ok |-> r.ok, n |-> r.n]

\* the while loop of AES_GCM::update over the bytes of src
RECURSIVE update_loop(_, _, _)
update_loop(self, src, dst) ==
    IF src = <<>> THEN [self |-> self, dst |-> dst]
    ELSE LET d == Append(dst, Xor8(Head(src), self.key_stream[self.pos + 1]))
             s1 == IF self.pos + 1 >= BlockSize
                   THEN [increment_counter(self) EXCEPT !.pos = 0]
                   ELSE [self EXCEPT !.pos = @ + 1]
         IN  update_loop(s1, Tail(src), d)

\* update that starts every call at the head of the keystream block
update_restart(self, src) ==
    IF self.state # "ENCRYPT" /\ self.state # "DECRYPT"
    THEN [self |-> self, dst |-> <<>>, threw |-> TRUE]
    ELSE IF src = <<>>
    THEN [self |-> self, dst |-> <<>>, threw |-> FALSE]
    ELSE LET s1 == IF self.state = "DECRYPT"
                   THEN [self EXCEPT !.ghash = ghash_add(@, src), !.pos = 0]
                   ELSE [self EXCEPT !.pos = 0]
             r == update_loop(s1, src, <<>>)
             s2 == IF r.self.state = "ENCRYPT"
                   THEN [r.self EXCEPT !.ghash = ghash_add(@, r.dst)]
                   ELSE r.self
         IN  [self |-> s2, dst |-> r.dst, threw |-> FALSE]

\* update that is refused in INIT only
update_final_open(self, src) ==
    IF self.state = "INIT"
    THEN [self |-> self, dst |-> <<>>, threw |-> TRUE]
    ELSE IF src = <<>>
    THEN [self |-> self, dst |-> <<>>, threw |-> FALSE]
    ELSE LET s1 == IF self.state = "DECRYPT"
                   THEN [self EXCEPT !.ghash = ghash_add(@, src)]
                   ELSE self
             r == update_loop(s1, src, <<>>)
             s2 == IF r.self.state = "ENCRYPT"
                   THEN [r.self EXCEPT !.ghash = ghash_add(@, r.dst)]
                   ELSE r.self
         IN  [self |-> s2, dst |-> r.dst, threw |-> FALSE]

\* update that returns nothing in FINAL but throws in INIT only
update_final_silent(self, src) ==
    IF self.state = "INIT"
    THEN [self |-> self, dst |-> <<>>, threw |-> TRUE]
    ELSE IF src = <<>> \/ self.state = "FINAL"
    THEN [self |-> self, dst |-> <<>>, threw |-> FALSE]
    ELSE LET s1 == IF self.state = "DECRYPT"
                   THEN [self EXCEPT !.ghash = ghash_add(@, src)]
                   ELSE self
             r == update_loop(s1, src, <<>>)
             s2 == IF r.self.state = "ENCRYPT"
                   THEN [r.self EXCEPT !.ghash = ghash_add(@, r.dst)]
                   ELSE r.self
         IN  [self |-> s2, dst |-> r.dst, threw |-> FALSE]

\* AES_GCM::update
update(self, src) ==
    IF self.state # "ENCRYPT" /\ self.state # "DECRYPT"
    THEN [self |-> self, dst |-> <<>>, threw |-> TRUE]
    ELSE IF src = <<>>
    THEN [self |-> self, dst |-> <<>>, threw |-> FALSE]
    ELSE LET s1 == IF self.state = "DECRYPT"
                   THEN [self EXCEPT !.ghash = ghash_add(@, src)]
                   ELSE self
             r == update_loop(s1, src, <<>>)
             s2 == IF r.self.state = "ENCRYPT"
                   THEN [r.self EXCEPT !.ghash = ghash_add(@, r.dst)]
                   ELSE r.self
         IN  [self |-> s2, dst |-> r.dst, threw |-> FALSE]

-----------------------------------------------------------------------------
(* Arguments the callers pass *)

Key128 == [i \in 1..16 |-> i]

Key192 == [i \in 1..24 |-> (2 * i) % 256]

Key256 == [i \in 1..32 |-> 255 - i]

Nonce12 == [i \in 1..12 |-> 16 * i + 1]

NonceShort == <<202>>

Nonces == {<<>>, Nonce12, NonceShort}

AADs == {<<>>, <<161, 178>>}

Chunk7 == [i \in 1..7 |-> 64 + i]

Chunk10 == [i \in 1..10 |-> 96 + i]

Chunks == {<<>>, Chunk7, Chunk10}

\* values an uninitialised std::array member may hold
Junk == {ZeroBlock, OnesBlock}

\* calls made on one session under Spec
MaxCalls == 5

InMessage(self) == self.state = "ENCRYPT" \/ self.state = "DECRYPT"

\* s with bit b of byte at (1-based) flipped
FlipBit(s, at, b) == [s EXCEPT ![at] = Xor8(@, 2 ^ b)]

\* the set_key overload that takes a key of this length
Keyed(self, key) ==
    CASE Len(key) = 16 -> set_key128(self, key)
      [] Len(key) = 24 -> set_key192(self, key)
      [] Len(key) = 32 -> set_key256(self, key)
      [] OTHER -> self

KeyedName(key) ==
    CASE Len(key) = 16 -> "set_key128"
      [] Len(key) = 24 -> "set_key192"
      [] OTHER -> "set_key256"

-----------------------------------------------------------------------------
(* One call of a member function on the session: the object afterwards,    *)
(* what the call returned, and the history of the message in flight.       *)

Called(name, self, r, b, t, n) ==
    /\ gcm' = self
    /\ op' = name
    /\ ret' = r
    /\ retb' = b
    /\ threw' = t
    /\ cmps' = n

SameMessage == UNCHANGED <<entry, m_in, m_out, nupd, clean>>

DoConstruct ==
    /\ \E j \in Junk : Called("AES_GCM", AES_GCM(j), <<>>, FALSE, FALSE, 0)
    /\ entry' = gcm'
    /\ m_in' = <<>>
    /\ m_out' = <<>>
    /\ nupd' = 0
    /\ clean' = TRUE

DoSetKey(name, self) ==
    /\ Called(name, self, <<>>, FALSE, FALSE, 0)
    /\ clean' = (clean /\ ~InMessage(gcm))
    /\ UNCHANGED <<entry, m_in, m_out, nupd>>

DoClear ==
    /\ Called("clear", clear(gcm), <<>>, FALSE, FALSE, 0)
    /\ SameMessage

DoAddAuthdata(a) ==
    /\ Called("add_authdata", add_authdata(gcm, a), <<>>, FALSE, FALSE, 0)
    /\ SameMessage

DoSetNonce(a) ==
    /\ Called("set_nonce", set_nonce(gcm, a), <<>>, FALSE, FALSE, 0)
    /\ SameMessage

DoSetAuthtag(a) ==
    /\ Called("set_authtag", set_authtag(gcm, a), <<>>, FALSE, FALSE, 0)
    /\ SameMessage

DoEntry(name, self) ==
    /\ Called(name, self, <<>>, FALSE, FALSE, 0)
    /\ entry' = self
    /\ m_in' = <<>>
    /\ m_out' = <<>>
    /\ nupd' = 0
    /\ clean' = TRUE

DoAuthtag ==
    /\ Called("authtag", authtag(gcm), authtag(gcm).tag, FALSE, FALSE, 0)
    /\ SameMessage

DoGood ==
    LET r == good(gcm)
    IN  /\ Called("good", r.self, <<>>, r.ok, FALSE, r.n)
        /\ SameMessage

DoUpdate(src) ==
    LET r == update(gcm, src)
    IN  /\ Called("update", r.self, r.dst, FALSE, r.threw, 0)
        /\ m_in' = IF r.threw THEN m_in ELSE m_in \o src
        /\ m_out' = IF r.threw THEN m_out ELSE m_out \o r.dst
        /\ nupd' = IF r.threw \/ src = <<>> THEN nupd ELSE nupd + 1
        /\ UNCHANGED <<entry, clean>>

-----------------------------------------------------------------------------
(* Spec: one session driven by any sequence of at most MaxCalls calls *)

NoTamper == [kind |-> "none", at |-> 0, bit |-> 0]

NoScenario == [key |-> <<>>, nonce |-> <<>>, aad |-> <<>>, p |-> <<>>,
               c |-> <<>>, t |-> <<>>, phase |-> "free", fresh |-> FALSE,
               tamper |-> NoTamper]

Constructed ==
    /\ gcm \in {AES_GCM(j) : j \in Junk}
    /\ op = "AES_GCM"
    /\ ret = <<>>
    /\ retb = FALSE
    /\ threw = FALSE
    /\ cmps = 0
    /\ entry = gcm
    /\ m_in = <<>>
    /\ m_out = <<>>
    /\ nupd = 0
    /\ clean = TRUE
    /\ ncalls = 0

Init ==
    /\ Constructed
    /\ pc = "free"
    /\ scn = NoScenario

Free ==
    /\ ncalls < MaxCalls
    /\ ncalls' = ncalls + 1
    /\ UNCHANGED <<pc, scn>>

SetKey128 == Free /\ DoSetKey("set_key128", set_key128(gcm, Key128))

SetKey192 == Free /\ DoSetKey("set_key192", set_key192(gcm, Key192))

SetKey256 == Free /\ DoSetKey("set_key256", set_key256(gcm, Key256))

Clear == Free /\ DoClear

AddAuthdata == Free /\ \E a \in AADs : DoAddAuthdata(a)

SetNonce == Free /\ \E a \in Nonces : DoSetNonce(a)

SetAuthtag == Free /\ \E a \in {<<>>, gcm.tag} : DoSetAuthtag(a)

Encrypt == Free /\ DoEntry("encrypt", encrypt(gcm))

Decrypt == Free /\ DoEntry("decrypt", decrypt(gcm))

Authtag == Free /\ DoAuthtag

Good == Free /\ DoGood

Update == Free /\ \E src \in Chunks : DoUpdate(src)

Next ==
    \/ SetKey128
    \/ SetKey192
    \/ SetKey256
    \/ Clear
    \/ AddAuthdata
    \/ SetNonce
    \/ SetAuthtag
    \/ Encrypt
    \/ Decrypt
    \/ Authtag
    \/ Good
    \/ Update

Spec == Init /\ [][Next]_vars

-----------------------------------------------------------------------------
(* SpecAEAD: a message is sealed (set key, nonce, AAD; encrypt; update;    *)
(* authtag) and then opened (set_authtag; decrypt; update; good), either   *)
(* by a newly constructed session or by the same session object, with the  *)
(* honest ciphertext, AAD and tag or with one bit of one of them flipped.  *)

Plaintexts == {<<>>, Chunk7, Chunk7 \o Chunk10}

Scenarios ==
    {[NoScenario EXCEPT !.key = k, !.nonce = n, !.aad = a, !.p = p, !.phase = "seal"] :
        k \in {Key128, Key192, Key256}, n \in {Nonce12, NonceShort},
        a \in AADs, p \in Plaintexts}

Bits == 0..7

Tampers ==
    {NoTamper}
    \cup {[kind |-> "aad", at |-> i, bit |-> b] : i \in 1..Len(scn.aad), b \in Bits}
    \cup {[kind |-> "ct", at |-> i, bit |-> b] : i \in 1..Len(scn.c), b \in Bits}
    \cup {[kind |-> "tag", at |-> i, bit |-> b] : i \in 1..Len(scn.t), b \in Bits}

Tampered(kind, s) ==
    IF scn.tamper.kind = kind THEN FlipBit(s, scn.tamper.at, scn.tamper.bit) ELSE s

InitAEAD ==
    /\ Constructed
    /\ pc = "new"
    /\ scn \in Scenarios

Step(from, to) == pc = from /\ pc' = to /\ UNCHANGED ncalls

\* the opener is a new session
S_Construct ==
    /\ Step("sealed", "new")
    /\ DoConstruct
    /\ scn' = [scn EXCEPT !.phase = "open", !.fresh = TRUE]

S_SetKey ==
    /\ Step("new", "keyed")
    /\ DoSetKey(KeyedName(scn.key), Keyed(gcm, scn.key))
    /\ UNCHANGED scn

S_SetNonce ==
    /\ Step("keyed", "nonced")
    /\ DoSetNonce(scn.nonce)
    /\ UNCHANGED scn

S_AddAuthdata ==
    /\ Step("nonced", "ready")
    /\ scn.phase = "seal"
    /\ DoAddAuthdata(scn.aad)
    /\ UNCHANGED scn

S_Encrypt ==
    /\ Step("ready", "entered")
    /\ scn.phase = "seal"
    /\ DoEntry("encrypt", encrypt(gcm))
    /\ UNCHANGED scn

S_UpdatePlain ==
    /\ Step("entered", "fed")
    /\ scn.phase = "seal"
    /\ DoUpdate(scn.p)
    /\ UNCHANGED scn

S_Authtag ==
    /\ Step("fed", "sealed")
    /\ scn.phase = "seal"
    /\ DoAuthtag
    /\ scn' = [scn EXCEPT !.c = m_out, !.t = ret']

\* the opener sets the AAD: on the new session, or on the session that
\* sealed the message (no clear() in between)
S_AddAuthdataOpen ==
    /\ \/ Step("nonced", "ready") /\ scn.phase = "open"
       \/ Step("sealed", "ready")
    /\ \E tm \in Tampers :
        /\ scn' = [scn EXCEPT !.phase = "open", !.tamper = tm]
        /\ DoAddAuthdata(IF tm.kind = "aad" THEN FlipBit(scn.aad, tm.at, tm.bit)
                                          ELSE scn.aad)

S_SetAuthtag ==
    /\ Step("ready", "tagged")
    /\ scn.phase = "open"
    /\ DoSetAuthtag(Tampered("tag", scn.t))
    /\ UNCHANGED scn

S_Decrypt ==
    /\ Step("tagged", "entered")
    /\ DoEntry("decrypt", decrypt(gcm))
    /\ UNCHANGED scn

S_UpdateCipher ==
    /\ Step("entered", "fed")
    /\ scn.phase = "open"
    /\ DoUpdate(Tampered("ct", scn.c))
    /\ UNCHANGED scn

S_Good ==
    /\ Step("fed", "done")
    /\ scn.phase = "open"
    /\ DoGood
    /\ UNCHANGED scn

NextAEAD ==
    \/ S_Construct
    \/ S_SetKey
    \/ S_SetNonce
    \/ S_AddAuthdata
    \/ S_Encrypt
    \/ S_UpdatePlain
    \/ S_Authtag
    \/ S_AddAuthdataOpen
    \/ S_SetAuthtag
    \/ S_Decrypt
    \/ S_UpdateCipher
    \/ S_Good

SpecAEAD == InitAEAD /\ [][NextAEAD]_vars

-----------------------------------------------------------------------------
(* Properties *)

EntryOps == {"encrypt", "decrypt"}

\* the initial counter block the nonce determines under the hash key in use
J0(self) ==
    IF Len(self.nonce) = 12
    THEN self.nonce \o <<0, 0, 0, 1>>
    ELSE ghash_digest(ghash_add(
             ghash_set_authdata(ghash_set_key128(ghash_new, self.ghash.key), <<>>),
             self.nonce))

PlusOne(block) == increment_loop(block, BlockSize - 1, 1)

\* what a newly constructed session with the key, nonce and AAD of e
\* returns for plaintext p: <<ciphertext, tag>>
FreshEncrypt(e, p) ==
    LET s0 == Keyed(AES_GCM(ZeroBlock), e.aes.key)
        s1 == encrypt(add_authdata(set_nonce(s0, e.nonce), e.authdata))
        r == update(s1, p)
    IN  <<r.dst, authtag(r.self).tag>>

\* C1: a message sealed under (key, nonce, AAD) and opened with the same
\* key, nonce, AAD, the honest ciphertext and the honest tag comes back as
\* the plaintext, and good() is true -- on a new session and on the session
\* that sealed it.
C1_RoundTrip ==
    (pc = "done" /\ scn.tamper.kind = "none") => (m_out = scn.p /\ retb = TRUE)

\* C2: a finalized encryption returned the ciphertext and the tag that a
\* newly constructed session returns for the same key, nonce, AAD and
\* plaintext, whatever the session did before the encrypt() call.
C2_Determinism ==
    (gcm.state = "FINAL" /\ entry.state = "ENCRYPT" /\ clean)
        => <<m_out, gcm.tag>> = FreshEncrypt(entry, m_in)

\* C3: within one message, the chunks fed so far gave the output, the
\* counter, keystream block, cursor and accumulator, and after authtag()
\* the tag, that one update call over their concatenation gives; an update
\* with an empty range changes nothing and returns the empty string.
C3_ChunkingInvariance ==
    (clean /\ entry.state \in {"ENCRYPT", "DECRYPT"}) =>
        LET r == update(entry, m_in)
        IN  /\ InMessage(gcm) =>
                /\ m_out = r.dst
                /\ gcm.counter = r.self.counter
                /\ gcm.key_stream = r.self.key_stream
                /\ gcm.pos = r.self.pos
                /\ gcm.ghash = r.self.ghash
                /\ update(gcm, <<>>) = [self |-> gcm, dst |-> <<>>, threw |-> FALSE]
            /\ gcm.state = "FINAL" =>
                /\ m_out = r.dst
                /\ gcm.tag = authtag(r.self).tag

C3_Witness ==
    /\ clean
    /\ entry.state = "ENCRYPT"
    /\ gcm.state = "FINAL"
    /\ nupd = 2
    /\ Len(m_in) = 17
    /\ Len(gcm.tag) = BlockSize

\* C4: an update call in INIT or FINAL throws, returns nothing and leaves
\* the whole object (counter, keystream block, cursor, accumulator, tag,
\* state) as it was.
C4_UpdateOutsideMessage ==
    [][(op' = "update" /\ ~InMessage(gcm))
          => (threw' /\ ret' = <<>> /\ gcm' = gcm /\ m_out' = m_out)]_vars

C4_Witness ==
    /\ op = "update"
    /\ threw
    /\ gcm.state = "FINAL"
    /\ Len(m_in) > 0

\* C5: opening with one bit of the ciphertext, of the AAD or of the
\* expected tag flipped makes good() return false.
C5_TamperDetected ==
    (pc = "done" /\ scn.tamper.kind # "none") => retb = FALSE

C5_Witness ==
    /\ pc = "done"
    /\ op = "good"
    /\ scn.tamper.kind = "ct"
    /\ Len(scn.c) = 17
    /\ retb = FALSE

\* C6: right after encrypt() or decrypt() the reserved mask is E(J0), the
\* counter J0+1, the keystream block E(J0+1), the cursor 0, the accumulator
\* seeded with the current AAD and nothing else, the state ENCRYPT resp.
\* DECRYPT.
C6_EntryResets ==
    op \in EntryOps =>
        /\ gcm.key_stream0 = aes_encrypt(gcm.aes, J0(gcm))
        /\ gcm.counter = PlusOne(J0(gcm))
        /\ gcm.key_stream = aes_encrypt(gcm.aes, PlusOne(J0(gcm)))
        /\ gcm.pos = 0
        /\ gcm.ghash = ghash_set_authdata(gcm.ghash, gcm.authdata)
        /\ gcm.state = (IF op = "encrypt" THEN "ENCRYPT" ELSE "DECRYPT")

\* C7: a session starts in INIT; encrypt() leads to ENCRYPT, decrypt() to
\* DECRYPT, clear() to INIT; authtag() and good() lead from ENCRYPT and
\* DECRYPT to FINAL and leave INIT and FINAL; every other call leaves the
\* state; FINAL is entered from ENCRYPT or DECRYPT only.
C7_StateTransitions ==
    /\ gcm.state = "INIT"
    /\ [][/\ op' = "encrypt" => gcm'.state = "ENCRYPT"
          /\ op' = "decrypt" => gcm'.state = "DECRYPT"
          /\ op' = "clear" => gcm'.state = "INIT"
          /\ op' \in {"authtag", "good"} =>
                gcm'.state = (IF InMessage(gcm) THEN "FINAL" ELSE gcm.state)
          /\ op' \in {"update", "add_authdata", "set_nonce", "set_authtag",
                      "set_key128", "set_key192", "set_key256"} =>
                gcm'.state = gcm.state
          /\ (gcm'.state = "FINAL" /\ gcm.state # "FINAL") => InMessage(gcm)
         ]_vars

C7_Witness ==
    /\ op = "good"
    /\ gcm.state = "FINAL"
    /\ entry.state = "DECRYPT"
    /\ Len(m_in) > 0

\* C8: at encrypt()/decrypt() entry J0 is nonce || 00 00 00 01 for a
\* 12-byte nonce, and otherwise the digest of an accumulator reset with
\* empty AAD into which the nonce alone was folded: the reserved mask is
\* E(J0) and the counter J0+1 for that J0.
C8_J0Derivation ==
    op \in EntryOps =>
        /\ gcm.key_stream0 = aes_encrypt(gcm.aes, J0(gcm))
        /\ gcm.counter = PlusOne(J0(gcm))

C8_Witness ==
    /\ op = "decrypt"
    /\ gcm.nonce = NonceShort
    /\ gcm.authdata # <<>>
    /\ entry.pos # 0

\* C9: in FINAL, authtag(), good(), set_authtag, add_authdata and set_nonce
\* leave the 16-byte tag and the state as they are, and authtag() returns
\* that tag -- also when a recomputation would give another one.
C9_AuthtagIdempotent ==
    [][(gcm.state = "FINAL"
           /\ op' \in {"authtag", "good", "set_authtag", "add_authdata", "set_nonce"})
          => /\ gcm'.tag = gcm.tag
             /\ Len(gcm'.tag) = BlockSize
             /\ gcm'.state = "FINAL"
             /\ op' = "authtag" => ret' = gcm.tag]_vars

C9_Witness ==
    /\ op = "authtag"
    /\ gcm.state = "FINAL"
    /\ clean
    /\ gcm.ghash.key # entry.ghash.key
    /\ ret = gcm.tag
    /\ Len(ret) = BlockSize

\* C10: every call of good() makes 16 per-byte comparison steps.
C10_FixedComparisons ==
    op = "good" => cmps = 16

\* C11: clear() leaves the session in INIT with nonce, AAD and expected tag
\* empty, the cursor at 0 and no computed tag: an authtag() call in INIT
\* returns nothing of a message processed before.
C11_ClearDiscards ==
    /\ op = "clear" =>
          /\ gcm.state = "INIT"
          /\ gcm.nonce = <<>>
          /\ gcm.authdata = <<>>
          /\ gcm.expected_tag = <<>>
          /\ gcm.pos = 0
          /\ gcm.tag = <<>>
    /\ (op = "authtag" /\ gcm.state = "INIT") => ret = <<>>

\* C14: set_nonce with an empty string fails, and no message is begun with
\* an empty nonce.
C14_EmptyNonceRejected ==
    /\ (op = "set_nonce" /\ gcm.nonce = <<>>) => threw
    /\ op \in EntryOps => gcm.nonce # <<>>

-----------------------------------------------------------------------------
(* SpecInc: increment_counter applied to a session whose counter is any of *)
(* a family of blocks: a run of 0 to 16 trailing 0xFF bytes, a byte before *)
(* the run and a fill above it.                                            *)

CounterBlock(run, b, fill) ==
    [i \in 1..BlockSize |->
        IF i > BlockSize - run THEN 255
        ELSE IF i = BlockSize - run THEN b
        ELSE fill]

Counters ==
    {CounterBlock(run, b, fill) :
        run \in 0..BlockSize, b \in {0, 1, 127, 254}, fill \in {0, 170, 255}}

InitInc ==
    /\ \E c \in Counters :
          gcm = [encrypt(set_key128(AES_GCM(ZeroBlock), Key128)) EXCEPT
                     !.counter = c,
                     !.key_stream = aes_encrypt(set_key128(AES_GCM(ZeroBlock), Key128).aes, c)]
    /\ op = "encrypt"
    /\ ret = <<>>
    /\ retb = FALSE
    /\ threw = FALSE
    /\ cmps = 0
    /\ entry = gcm
    /\ m_in = <<>>
    /\ m_out = <<>>
    /\ nupd = 0
    /\ clean = TRUE
    /\ ncalls = 0
    /\ pc = "inc"
    /\ scn = NoScenario

IncrementCounter ==
    /\ pc = "inc"
    /\ ncalls < MaxCalls
    /\ ncalls' = ncalls + 1
    /\ gcm' = increment_counter(gcm)
    /\ op' = "increment_counter"
    /\ UNCHANGED <<ret, retb, threw, cmps, entry, m_in, m_out, nupd, clean, pc, scn>>

NextInc == IncrementCounter

SpecInc == InitInc /\ [][NextInc]_vars

\* the positions of c that do not hold 0xFF
NotFF(c) == {i \in 1..BlockSize : c[i] # 255}

\* c read as a 16-byte big-endian integer, plus one, modulo 2^128
AddOne(c) ==
    IF NotFF(c) = {} THEN ZeroBlock
    ELSE LET m == CHOOSE i \in NotFF(c) : \A j \in NotFF(c) : j <= i
         IN  [i \in 1..BlockSize |->
                 IF i < m THEN c[i] ELSE IF i = m THEN c[i] + 1 ELSE 0]

\* C12: increment_counter adds one to the counter read as a 16-byte
\* big-endian integer modulo 2^128: the bytes of the trailing 0xFF run
\* become 0, the byte before the run grows by one, the bytes above it stay,
\* and all-ones becomes all-zero.
C12_IncrementCounter ==
    [][op' = "increment_counter" =>
          /\ gcm'.counter = AddOne(gcm.counter)
          /\ (gcm.counter = OnesBlock => gcm'.counter = ZeroBlock)]_vars

C12_Witness ==
    /\ op = "increment_counter"
    /\ ncalls = 1
    /\ gcm.counter = ZeroBlock

\* C13: from an encrypt()/decrypt() entry to the next one, the counter is
\* never the J0 of that message; while the key is not changed, the current
\* keystream block is the encryption of that counter and is not the
\* reserved mask E(J0).
C13_CounterNeverJ0 ==
    entry.state \in {"ENCRYPT", "DECRYPT"} =>
        /\ gcm.counter # J0(entry)
        /\ (clean /\ gcm.aes = entry.aes) =>
              /\ gcm.key_stream = aes_encrypt(gcm.aes, gcm.counter)
              /\ gcm.key_stream # gcm.key_stream0

C13_Witness ==
    /\ InMessage(gcm)
    /\ clean
    /\ nupd = 2
    /\ Len(m_in) = 20
    /\ gcm.counter = PlusOne(PlusOne(J0(entry)))

\* C15: once set_key128/192/256 was called in ENCRYPT or DECRYPT, an update
\* call does not continue the message from the keystream block, mask and
\* counter of the previous key: what update has returned since the entry
\* is not what it returns with the key left alone.
C15_SetKeyInvalidates ==
    (op = "update" /\ ~clean /\ InMessage(gcm) /\ ret # <<>>)
        => m_out # update(entry, m_in).dst

RECURSIVE PlusN(_, _)
PlusN(block, n) == IF n = 0 THEN block ELSE PlusN(PlusOne(block), n - 1)

\* byte i (0-based) of the keystream of the message entered at e
KeystreamByte(e, i) ==
    aes_encrypt(e.aes, PlusN(J0(e), 1 + (i \div BlockSize)))[(i % BlockSize) + 1]

\* C16: byte i (from 0, over all update calls since the entry) of a message
\* is XORed with byte i mod 16 of E(J0 + 1 + i div 16); the cursor is in
\* 0..15; the counter has been incremented once for every 16 bytes.
C16_KeystreamPosition ==
    /\ gcm.pos \in 0..(BlockSize - 1)
    /\ (clean /\ InMessage(gcm)) =>
          /\ \A i \in 0..(Len(m_in) - 1) :
                m_out[i + 1] = Xor8(m_in[i + 1], KeystreamByte(entry, i))
          /\ gcm.pos = Len(m_in) % BlockSize
          /\ gcm.counter = PlusN(J0(entry), 1 + (Len(m_in) \div BlockSize))
          /\ gcm.key_stream = aes_encrypt(gcm.aes, gcm.counter)

\* the ciphertext of the message in flight: what update returned when
\* encrypting, what update was given when decrypting
Ciphertext == IF entry.state = "ENCRYPT" THEN m_out ELSE m_in

\* C17: the tag of a finalized message is E(J0) XOR the digest of an
\* accumulator seeded with the AAD in effect at the entry that then
\* received the ciphertext bytes of the message in order, and nothing else.
C17_TagValue ==
    (gcm.state = "FINAL" /\ clean) =>
        gcm.tag = XorBlock(aes_encrypt(entry.aes, J0(entry)),
                           ghash_digest(ghash_add(
                               ghash_set_authdata(
                                   ghash_set_key128(ghash_new, entry.ghash.key),
                                   entry.authdata),
                               Ciphertext)))

C17_Witness ==
    /\ op = "authtag"
    /\ gcm.state = "FINAL"
    /\ clean
    /\ entry.state = "DECRYPT"
    /\ entry.nonce = NonceShort
    /\ entry.authdata # <<>>
    /\ Len(m_in) > 0
    /\ ret = gcm.tag

Setters == {"add_authdata", "set_nonce", "set_authtag"}

\* C18: add_authdata, set_nonce and set_authtag called in ENCRYPT or
\* DECRYPT leave the counter, the keystream block, the reserved mask, the
\* cursor, the accumulator, the tag and the state unchanged, so the next
\* update and authtag give what they would have given without the call; the
\* recorded AAD and nonce are read by the next encrypt()/decrypt().
C18_SettersMidMessage ==
    [][/\ (InMessage(gcm) /\ op' \in Setters) =>
             /\ gcm'.counter = gcm.counter
             /\ gcm'.key_stream = gcm.key_stream
             /\ gcm'.key_stream0 = gcm.key_stream0
             /\ gcm'.pos = gcm.pos
             /\ gcm'.ghash = gcm.ghash
             /\ gcm'.tag = gcm.tag
             /\ gcm'.state = gcm.state
             /\ \A c \in Chunks : update(gcm', c).dst = update(gcm, c).dst
             /\ authtag(gcm').tag = authtag(gcm).tag
       /\ op' \in EntryOps =>
             /\ gcm'.ghash.authdata = gcm.authdata
             /\ gcm'.key_stream0 = aes_encrypt(gcm.aes, J0(gcm))]_vars

C18_Witness ==
    /\ op = "add_authdata"
    /\ InMessage(gcm)
    /\ Len(m_in) > 0
    /\ gcm.authdata # <<>>
    /\ gcm.ghash.authdata = <<>>
    /\ gcm.ghash.authdata = entry.authdata

\* C19 as stated: an update call made in FINAL is accepted and does not fail.
C19_UpdateAcceptedInFinal ==
    (op = "update" /\ gcm.state = "FINAL") => ~threw

\* C19: update called in FINAL (after authtag() or good()) is rejected: it
\* throws, returns no bytes and leaves the session, cursor and counter
\* included, as it was.
C19_UpdateRejectedInFinal ==
    [][(gcm.state = "FINAL" /\ op' = "update") =>
          /\ threw'
          /\ ret' = <<>>
          /\ gcm' = gcm]_vars

C19_Witness ==
    /\ op = "update"
    /\ threw
    /\ gcm.state = "FINAL"
    /\ entry.state = "DECRYPT"
    /\ Len(m_in) > 0
    /\ gcm.pos = Len(m_in) % BlockSize

-----------------------------------------------------------------------------
(* SpecGood: good() on a message with no AAD and no data, whose tag is     *)
(* E(J0); the 12-byte nonce is chosen so that the tag ends in a run of     *)
(* zero bytes, and the expected tag is a prefix of the tag, a prefix with  *)
(* one bit flipped, or 16 bytes followed by more.                          *)

\* a 128-bit key under which E(nonce || 0001) starts with four zero bytes
LeadKey == [i \in 1..BlockSize |->
               CASE i = 5  -> 116
                 [] i = 6  -> 210
                 [] i = 11 -> 178
                 [] i = BlockSize -> 147
                 [] OTHER  -> i]

GoodKeys == {Key128, LeadKey}

\* bytes 5..16 of the tag to obtain: non-zero, then a run of zero bytes
TagShape(run) ==
    [i \in 1..BlockSize |-> IF i > BlockSize - run THEN 0 ELSE 7 * i + 3]

\* the nonce for which E(nonce || 0001) under key ends as TagShape(run)
TagNonce(key, run) ==
    LET rk == aes_set_encrypt_key(aes_new, key).rk
    IN  [j \in 1..12 |-> Xor8(TagShape(run)[BlockSize + 1 - j], rk[BlockSize + 1 - j])]

Prefixes(t) == {SubSeq(t, 1, n) : n \in 0..Len(t)}

ExpectedTags(t) ==
    LET wrong == {FlipBit(p, m, 0) : p \in Prefixes(t) \ {<<>>}, m \in {1}}
                     \cup {FlipBit(p, Len(p), 0) : p \in Prefixes(t) \ {<<>>}}
    IN  Prefixes(t) \cup wrong
            \cup {t \o <<9>>, t \o <<0, 9>>, FlipBit(t, 3, 7) \o <<9>>}

InitGood ==
    /\ \E key \in GoodKeys, run \in 0..12, dec \in BOOLEAN, fin \in BOOLEAN :
          LET s0 == set_nonce(set_key128(AES_GCM(ZeroBlock), key), TagNonce(key, run))
              s1 == IF dec THEN decrypt(s0) ELSE encrypt(s0)
          IN  /\ gcm = (IF fin THEN authtag(s1) ELSE s1)
              /\ entry = s1
              /\ op = (IF fin THEN "authtag" ELSE IF dec THEN "decrypt" ELSE "encrypt")
              /\ ret = (IF fin THEN authtag(s1).tag ELSE <<>>)
    /\ retb = FALSE
    /\ threw = FALSE
    /\ cmps = 0
    /\ m_in = <<>>
    /\ m_out = <<>>
    /\ nupd = 0
    /\ clean = TRUE
    /\ ncalls = 0
    /\ pc = "final"
    /\ scn = NoScenario

G_SetAuthtag ==
    /\ Step("final", "armed")
    /\ \E e \in ExpectedTags(authtag(gcm).tag) : DoSetAuthtag(e)
    /\ UNCHANGED scn

G_Good ==
    /\ Step("armed", "judged")
    /\ DoGood
    /\ UNCHANGED scn

NextGood ==
    \/ G_SetAuthtag
    \/ G_Good

SpecGood == InitGood /\ [][NextGood]_vars

\* C20: good() on a finalized message returns true exactly when every one
\* of the 16 tag bytes equals the expected-tag byte at its position, a
\* position beyond the expected tag counting as zero: a shorter expected
\* tag passes iff it is a prefix of the tag and the rest of the tag is
\* zero, bytes of the expected tag from position 16 on are not looked at,
\* and good() does not throw.
C20_GoodVerdict ==
    pc = "judged" =>
        LET t == gcm.tag
            e == gcm.expected_tag
        IN  /\ gcm.state = "FINAL"
            /\ Len(t) = BlockSize
            /\ retb = (\A i \in 1..BlockSize :
                          t[i] = (IF i > Len(e) THEN 0 ELSE e[i]))
            /\ Len(e) < BlockSize =>
                  retb = (/\ SubSeq(t, 1, Len(e)) = e
                          /\ \A i \in (Len(e) + 1)..BlockSize : t[i] = 0)
            /\ Len(e) >= BlockSize => retb = (SubSeq(e, 1, BlockSize) = t)
            /\ ~threw

C20_Witness ==
    /\ pc = "judged"
    /\ retb
    /\ gcm.tag[1] # 0
    /\ Len(gcm.expected_tag) > 0
    /\ Len(gcm.expected_tag) < BlockSize

====
